---- MODULE Spec2Model ----
(***************************************************************************)
(* Capture-session controller of the VitalScan component                   *)
(* (src/components/VitalScan.tsx): camera acquisition, the recording       *)
(* session with its interval timer and MediaRecorder, forceStopRecording,  *)
(* the delayed hand-off of the chunk buffer and the processRecording       *)
(* pipeline (analyze call, then persistence call).                         *)
(*                                                                         *)
(* Execution model: the browser event loop.  Every action is one task      *)
(* (an event handler, a timer callback, or the continuation of an await).  *)
(* React commits the state written by a task before the next task runs,    *)
(* so a handler taken from the latest render (startRecording,              *)
(* stopRecording) reads the current state.  Closures that are NOT taken    *)
(* from the latest render keep the state of the render that created them:  *)
(*   - forceStopRecording is useCallback(..., []), so the processRecording *)
(*     it calls is the one of the first render (isProcessing = false);     *)
(*   - recorder.onstop is created inside an accepted startRecording, i.e.  *)
(*     in a render where isProcessing = false.                             *)
(* State setters are modelled as writes whether or not the component is    *)
(* still mounted; the code's own isMounted.current tests are modelled      *)
(* where the code has them.                                                *)
(*                                                                         *)
(* Sessions are named relative to the present: "cur" is the session of     *)
(* the latest accepted startRecording, "old" the one before it.  An        *)
(* accepted startRecording renames "cur" to "old"; the model explores the  *)
(* starts made when nothing of the session before "cur" is still pending,  *)
(* so any number of sessions follow one another and two may overlap.       *)
(***************************************************************************)
EXTENDS Integers, Sequences, FiniteSets

\* ---- bounds of the model ----
MaxChunks == 2        \* chunks one buffer may hold
MaxLate == 1          \* seconds an interval callback may run late
MaxCamera == 1        \* startCamera calls awaited at the same time, and
                      \* streams held when a further one is requested
MaxRuns == 2          \* processRecording invocations awaiting a network
                      \* call at the same time
MaxOverlap == 1       \* seconds of a recording that an awaited fetch may
                      \* overlap
MaxDispatched == 3    \* health checks dispatched while the component lives
MapMargin == 5        \* distance from the thresholds of the heart rates and
                      \* stress indexes that MappingSpec draws

\* ---- program constants ----
RecordingDuration == 30
ElevatedAbove == 100
HighStressAbove == 50

NULL == "null"
\* result === null (a VitalScanResult that is absent)
NoResult == [heartRate |-> 0, stressLevel |-> NULL, status |-> NULL]

Tags == {"cur", "old"}
NoRef == "none"

CameraDeniedMsg == "Camera access denied. Please check browser permissions."
EmptyCaptureMsg == "No video data captured. Please hold still."
RecordingFailedMsg == "Recording failed. Check camera permissions."
AnalysisFailedMsg == "Analysis failed"
ServerErrorMsg == "Server error: 500"
TransportMsg == "Failed to fetch"
JsonParseMsg == "Unexpected token < in JSON"
ServiceReasonMsg == "No face detected"

\* values of an analyze response (rppgData.heart_rate, taken as whole
\* beats per minute, and rppgData.stress_index)
HeartRates == {105}
StressIndexes == {61}

\* the values around the two thresholds
BoundaryHeartRates == (ElevatedAbove - MapMargin)..(ElevatedAbove + MapMargin)
BoundaryStressIndexes ==
  (HighStressAbove - MapMargin)..(HighStressAbove + MapMargin)

\* rppgData before the analyze response has arrived
NoResponse == [heart_rate |-> 0, stress_index |-> 0]

VARIABLES
  mounted,           \* isMounted.current
  cameraPending,     \* getUserMedia calls of startCamera still awaited
  srcObject,         \* videoRef.current.srcObject is a stream
  heldStreams,       \* streams getUserMedia has returned whose tracks have
                     \* not been stopped
  isRecording, recordingTime, isProcessing, result, error, storageStatus,
  mediaRecorderRef,  \* NoRef = null, else the session of the recorder
  chunks,            \* chunksRef.current: the session each chunk was recorded in
  timerRef,          \* NoRef = null, else the session of the interval
  intervals,         \* sessions whose interval is scheduled
  clock,             \* per interval: floor((Date.now() - startTime) / 1000)
  lag,               \* per interval: seconds since its callback last ran
  rec,               \* state of the MediaRecorder of the latest session
  tOnstop,           \* per session: pending setTimeout(.., 100) of recorder.onstop
  tForce,            \* per session: pending setTimeout(.., 200) of forceStopRecording
  runs,              \* processRecording invocations awaiting a network call
  analyzeCalls,      \* per session: analyze requests issued
  stopCalls,         \* recorder.stop() calls made since the latest start
  timerCancels,      \* clearInterval calls of forceStopRecording since then
  forceCalls,        \* forceStopRecording invocations since then
  lastOp,            \* what the last task did
  observe,           \* which of the bookkeeping variables are kept:
                     \* "calls" (the call counters and lastOp), "streams"
                     \* (heldStreams) or "none"
  useProxy,
  serviceStatus,
  statusFrom,        \* the health check whose result serviceStatus holds
  healthInterval,    \* 0 = none, else the number of the scheduled interval
                     \* of the periodic health effect
  checks,            \* performCheck calls awaiting localServices.checkHealth
  dispatched         \* performCheck calls made so far

sessionVars == << mounted, cameraPending, srcObject, heldStreams, isRecording,
           recordingTime, isProcessing, result, error, storageStatus,
           mediaRecorderRef, chunks, timerRef, intervals, clock, lag, rec,
           tOnstop, tForce, runs, analyzeCalls, stopCalls, timerCancels,
           forceCalls, lastOp, observe >>

healthVars == << useProxy, serviceStatus, statusFrom, healthInterval, checks,
                 dispatched >>

vars == << sessionVars, healthVars >>

cameraVars == << cameraPending, srcObject, heldStreams >>
displayVars == << result, error, storageStatus >>
processVars == << isProcessing, runs, analyzeCalls >>
timeoutVars == << tOnstop, tForce >>
timerVars == << timerRef, intervals, clock, lag >>
recorderVars == << mediaRecorderRef, rec >>
counterVars == << stopCalls, timerCancels, forceCalls >>

Zero == [s \in Tags |-> 0]

\* ---- the health monitor: values ----
\* An optional field of a ServiceStatus is a set with at most one element
\* ({} = the field is absent).

\* a probe that has not completed
Pending == [kind |-> "pending", status |-> 0, latency |-> 0,
            e |-> [name |-> "", message |-> ""]]

HttpStatuses == {200, 503}
Latencies == {3}
Exceptions == {[name |-> "TypeError", message |-> "Failed to fetch"]}

\* what a probe's fetch can do: resolve with a response after latency
\* milliseconds, or reject with an exception
ProbeOutcomes ==
  {[kind |-> "http", status |-> st, latency |-> l,
    e |-> [name |-> "", message |-> ""]] : st \in HttpStatuses, l \in Latencies}
  \cup
  {[kind |-> "throws", status |-> 0, latency |-> 0, e |-> x] : x \in Exceptions}

\* serviceStatus === null
NoStatus == [ok |-> FALSE, message |-> << >>, latency |-> {},
             usingProxy |-> {}, errorType |-> {}, rawError |-> {}]
NoServiceStatus == [backend |-> NoStatus, rppg |-> NoStatus]
NoCheck == [seq |-> 0, useProxy |-> FALSE, interval |-> 0]

\* A performCheck call: its number, the useProxy of its closure, the
\* interval that was scheduled when it was made, and its two probes.
NewCheck(seq, proxy, interval) ==
  [seq |-> seq, useProxy |-> proxy, interval |-> interval,
   backend |-> Pending, rppg |-> Pending]

\* The health monitor after the first render and the periodic health
\* effect: performCheck() has been called and the interval is scheduled.
HealthMounted ==
  /\ useProxy = FALSE
  /\ serviceStatus = NoServiceStatus
  /\ statusFrom = NoCheck
  /\ healthInterval = 1
  /\ checks = {NewCheck(1, FALSE, 1)}
  /\ dispatched = 1

\* The state after the first render and the mount effect (startCamera
\* has been called and is awaiting getUserMedia).
Mounted ==
  /\ HealthMounted
  /\ mounted = TRUE
  /\ cameraPending = 1
  /\ srcObject = FALSE
  /\ heldStreams = 0
  /\ isRecording = FALSE
  /\ recordingTime = 0
  /\ isProcessing = FALSE
  /\ result = NoResult
  /\ error = NULL
  /\ storageStatus = NULL
  /\ mediaRecorderRef = NoRef
  /\ chunks = << >>
  /\ timerRef = NoRef
  /\ intervals = {}
  /\ clock = Zero
  /\ lag = Zero
  /\ rec = "none"
  /\ tOnstop = Zero
  /\ tForce = Zero
  /\ runs = << >>
  /\ analyzeCalls = Zero
  /\ stopCalls = 0
  /\ timerCancels = 0
  /\ forceCalls = 0
  /\ lastOp = "mount"

Init == Mounted /\ observe = "calls"

\* The same program with the bookkeeping variables switched off.
InitQuiet == Mounted /\ observe = "none"

\* The same program with the held streams counted.
InitStreams == Mounted /\ observe = "streams"

\* lastOp records the task just run.
Log(label) ==
  /\ lastOp' = (IF observe = "calls" THEN label ELSE lastOp)
  /\ observe' = observe

\* A task of the capture session: it leaves the health monitor alone.
Op(label) ==
  /\ Log(label)
  /\ UNCHANGED healthVars

\* A call counter after one more call.
Count(n) == IF observe = "calls" THEN n + 1 ELSE n

\* The count of held streams, where it is kept.
Held(n) == IF observe = "streams" THEN n ELSE 0

\* ---------------------------------------------------------------------
\* startCamera / stopCamera / mount effect
\* ---------------------------------------------------------------------

\* startCamera: getUserMedia resolves with a new stream or rejects.  The
\* stream is assigned to videoRef.current.srcObject (the stream that was
\* bound before is replaced, its tracks are not stopped); after unmount
\* videoRef.current is null, so a granted stream is not bound.
StartCameraCompletes ==
  /\ cameraPending > 0
  /\ cameraPending' = cameraPending - 1
  /\ \E granted \in BOOLEAN :
       IF granted
       THEN /\ srcObject' = (srcObject \/ mounted)
            /\ heldStreams' = Held(heldStreams + 1)
            /\ error' = error
       ELSE /\ srcObject' = srcObject
            /\ heldStreams' = heldStreams
            /\ error' = IF mounted THEN CameraDeniedMsg ELSE error
  /\ Op("camera")
  /\ UNCHANGED << mounted, isRecording, recordingTime, result, storageStatus,
                  chunks, processVars, timeoutVars, timerVars, recorderVars,
                  counterVars >>

\* "Retry Live" button, rendered while error is set: setError(null);
\* startCamera().
RetryLive ==
  /\ mounted
  /\ error # NULL
  /\ cameraPending < MaxCamera
  /\ heldStreams <= MaxCamera
  /\ error' = NULL
  /\ cameraPending' = cameraPending + 1
  /\ Op("retry")
  /\ UNCHANGED << mounted, srcObject, heldStreams, isRecording,
                  recordingTime, result, storageStatus, chunks, processVars,
                  timeoutVars, timerVars, recorderVars, counterVars >>

\* "Clear" button, rendered while a result is held.
ClearResult ==
  /\ mounted
  /\ result # NoResult
  /\ result' = NoResult
  /\ Op("clear")
  /\ UNCHANGED << mounted, cameraVars, isRecording, recordingTime, error,
                  storageStatus, chunks, processVars, timeoutVars, timerVars,
                  recorderVars, counterVars >>

\* stopCamera: if (videoRef.current?.srcObject) stop every track of it.
StopCamera(refAttached, bound, held) ==
  IF refAttached /\ bound THEN held - 1 ELSE held

\* Unmount runs the cleanups of both effects.  Cleanup of the mount
\* effect: isMounted.current = false; stopCamera().  Cleanup of the
\* periodic health effect: clearInterval(interval).
\* Whether videoRef.current still refers to the video element when the
\* cleanup runs depends on the React version in use (from React 17 on the
\* ref is detached before the cleanup of a passive effect runs).  A
\* recorder on a stream whose tracks were stopped ends through RecorderEnds.
Unmount ==
  /\ mounted
  /\ mounted' = FALSE
  /\ \E refAttached \in BOOLEAN :
       heldStreams' = Held(StopCamera(refAttached, srcObject, heldStreams))
  /\ healthInterval' = 0
  /\ Log("unmount")
  /\ UNCHANGED << useProxy, serviceStatus, statusFrom, checks, dispatched >>
  /\ UNCHANGED << cameraPending, srcObject, isRecording, recordingTime, displayVars, chunks,
                  processVars, timeoutVars, timerVars, recorderVars,
                  counterVars >>

\* ---------------------------------------------------------------------
\* forceStopRecording
\* ---------------------------------------------------------------------

\* clearInterval and the bookkeeping done without looking at the ref
ForceStopHasTimer_Unchecked(tr) == TRUE

\* if (timerRef.current)
ForceStopHasTimer(tr) == tr # NoRef

\* a clearInterval that leaves the interval scheduled
ClearInterval_Kept(scheduled, id) == scheduled

\* clearInterval(id)
ClearInterval(scheduled, id) == scheduled \ {id}

\* a forceStopRecording that never stops the recorder
RecorderStopNeeded_Never(mref, recstate) == FALSE

\* if (mediaRecorderRef.current) ... state === 'recording'
RecorderStopNeeded(mref, recstate) == mref # NoRef /\ recstate = "recording"

\* if (chunksRef.current.length > 0)
ForceStopForwards(ch) == Len(ch) > 0

Bump(f, s) == [f EXCEPT ![s] = @ + 1]
CountAt(f, s) == [f EXCEPT ![s] = Count(@)]

\* What forceStopRecording reads, as the present state holds it.
Now ==
  [timerRef |-> timerRef, intervals |-> intervals, clock |-> clock,
   lag |-> lag, mediaRecorderRef |-> mediaRecorderRef, rec |-> rec,
   chunks |-> chunks, tForce |-> tForce, stopCalls |-> stopCalls,
   timerCancels |-> timerCancels, forceCalls |-> forceCalls]

\* forceStopRecording, run in a task whose earlier statements left st.
ForceStopRecording(st) ==
  /\ isRecording' = FALSE
  /\ recordingTime' = 0
  /\ timerRef' = IF ForceStopHasTimer(st.timerRef) THEN NoRef ELSE st.timerRef
  /\ intervals' = IF ForceStopHasTimer(st.timerRef)
                  THEN ClearInterval(st.intervals, st.timerRef)
                  ELSE st.intervals
  /\ clock' = [s \in Tags |-> IF s \in intervals' THEN st.clock[s] ELSE 0]
  /\ lag' = [s \in Tags |-> IF s \in intervals' THEN st.lag[s] ELSE 0]
  /\ rec' = IF RecorderStopNeeded(st.mediaRecorderRef, st.rec)
            THEN "stopping" ELSE st.rec
  /\ mediaRecorderRef' = NoRef
  /\ tForce' = IF ForceStopForwards(st.chunks) THEN Bump(st.tForce, "cur")
               ELSE st.tForce
  /\ stopCalls' = IF RecorderStopNeeded(st.mediaRecorderRef, st.rec)
                  THEN Count(st.stopCalls) ELSE st.stopCalls
  /\ timerCancels' = IF ForceStopHasTimer(st.timerRef)
                     THEN Count(st.timerCancels) ELSE st.timerCancels
  /\ forceCalls' = Count(st.forceCalls)

\* ---------------------------------------------------------------------
\* startRecording
\* ---------------------------------------------------------------------

\* the guard without its isProcessing half
StartRejected_RecordingOnly == isRecording

\* if (isRecording || isProcessing) return;
StartRejected == isRecording \/ isProcessing

\* Nothing of session "old" is pending any more, and the task queued by
\* the latest recorder.stop() has run.
OldFinished ==
  /\ tOnstop["old"] = 0
  /\ tForce["old"] = 0
  /\ rec \in {"none", "done"}
  /\ "old" \notin intervals
  /\ \A i \in 1..Len(runs) : runs[i].s # "old"

\* The name session s has after one more accepted startRecording.
Older(s) == IF s = "cur" THEN "old" ELSE s

OlderSeq(q) == [j \in 1..Len(q) |-> Older(q[j])]

\* a start that keeps the buffer of the session before
FreshBuffer_Kept == chunks

\* chunksRef.current = []
FreshBuffer == << >>

\* The state startRecording has produced when it reaches the recorder
\* set-up: a fresh buffer, the new interval scheduled and stored in
\* timerRef, and the earlier session renamed.
Started ==
  [timerRef |-> "cur",
   intervals |-> {Older(s) : s \in intervals} \cup {"cur"},
   clock |-> [cur |-> 0, old |-> clock["cur"]],
   lag |-> [cur |-> 0, old |-> lag["cur"]],
   mediaRecorderRef |-> Older(mediaRecorderRef),
   rec |-> "none",
   chunks |-> FreshBuffer,
   tForce |-> [cur |-> 0, old |-> tForce["cur"]],
   stopCalls |-> 0, timerCancels |-> 0, forceCalls |-> 0]

StartRecording ==
  /\ mounted
  /\ IF StartRejected
     THEN /\ Op("start_rejected")
          /\ UNCHANGED << mounted, cameraVars, isRecording, recordingTime,
                          displayVars, chunks, processVars, timeoutVars,
                          timerVars, recorderVars, counterVars >>
     ELSE /\ OldFinished
          /\ result' = NoResult
          /\ chunks' = Started.chunks
          /\ tOnstop' = [cur |-> 0, old |-> tOnstop["cur"]]
          /\ runs' = [j \in 1..Len(runs) |->
                        [runs[j] EXCEPT !.s = "old", !.data = OlderSeq(@)]]
          /\ analyzeCalls' = [cur |-> 0, old |-> analyzeCalls["cur"]]
          /\ \E setup \in {"ok", "throws"} :
               IF srcObject /\ setup = "throws"
               THEN \* new MediaRecorder / recorder.start throws: catch block
                    /\ error' = RecordingFailedMsg
                    /\ ForceStopRecording(Started)
                    /\ Op("start_failed")
               ELSE /\ error' = NULL
                    /\ recordingTime' = 0
                    /\ isRecording' = TRUE
                    /\ timerRef' = Started.timerRef
                    /\ intervals' = Started.intervals
                    /\ clock' = Started.clock
                    /\ lag' = Started.lag
                    /\ rec' = IF srcObject THEN "recording" ELSE Started.rec
                    /\ mediaRecorderRef' = IF srcObject THEN "cur"
                                           ELSE Started.mediaRecorderRef
                    /\ tForce' = Started.tForce
                    /\ stopCalls' = Started.stopCalls
                    /\ timerCancels' = Started.timerCancels
                    /\ forceCalls' = Started.forceCalls
                    /\ Op("start")
          /\ UNCHANGED << mounted, cameraVars, storageStatus, isProcessing >>

\* stopRecording: if (!isRecording) return; forceStopRecording();
StopRecording ==
  /\ mounted
  /\ isRecording
  /\ ForceStopRecording(Now)
  /\ Op("stop")
  /\ UNCHANGED << mounted, cameraVars, displayVars, chunks, processVars,
                  tOnstop >>

\* ---------------------------------------------------------------------
\* the interval timer of startRecording
\* ---------------------------------------------------------------------

NoPendingTimeout == \A s \in Tags : tOnstop[s] = 0 /\ tForce[s] = 0

\* No fetch is awaited.
Quiescent == Len(runs) = 0

\* The clock is followed until a callback that is as late as can be has
\* seen the deadline.
MaxClock == RecordingDuration + MaxLate + 1

\* One second of wall-clock time passes for a scheduled interval.  The
\* 100 ms and 200 ms timeouts are due before a further second passes;
\* awaited fetches are explored overlapping the first MaxOverlap seconds.
Advance(s) ==
  /\ s \in intervals
  /\ lag[s] <= MaxLate
  /\ clock[s] < MaxClock
  /\ NoPendingTimeout
  /\ clock[s] < MaxOverlap \/ Quiescent
  /\ clock' = [clock EXCEPT ![s] = @ + 1]
  /\ lag' = [lag EXCEPT ![s] = @ + 1]
  /\ Op("advance")
  /\ UNCHANGED << mounted, cameraVars, isRecording, recordingTime, displayVars,
                  chunks, processVars, timeoutVars, timerRef, intervals,
                  recorderVars, counterVars >>

\* the deadline test as an equality
DeadlineReached_Exact(elapsed) == elapsed = RecordingDuration

\* if (elapsed >= 30)
DeadlineReached(elapsed) == elapsed >= RecordingDuration

\* The setInterval callback of session s.
TimerTick(s) ==
  /\ s \in intervals
  /\ lag[s] >= 1
  /\ LET elapsed == clock[s] IN
     IF DeadlineReached(elapsed)
     THEN \* clearInterval(timerId); forceStopRecording();
          /\ ForceStopRecording(
                 [Now EXCEPT !.intervals = ClearInterval(intervals, s)])
          /\ Op("deadline")
     ELSE /\ recordingTime' = elapsed
          /\ lag' = [lag EXCEPT ![s] = 0]
          /\ Op("tick")
          /\ UNCHANGED << isRecording, timerRef, intervals, clock,
                          mediaRecorderRef, rec, tForce, counterVars >>
  /\ UNCHANGED << mounted, cameraVars, displayVars, chunks, processVars,
                  tOnstop >>

\* ---------------------------------------------------------------------
\* processRecording
\* ---------------------------------------------------------------------

Remove(q, i) == [j \in 1..(Len(q) - 1) |-> IF j < i THEN q[j] ELSE q[j + 1]]

\* blob.size === 0: ondataavailable stores only chunks of size > 0
BlobEmpty(captured) == Len(captured) = 0

\* a finally block that leaves isProcessing as it is
FinallyIsProcessing_Kept(m, cur) == cur

\* finally { if (isMounted.current) setIsProcessing(false); }
FinallyIsProcessing(m, cur) == IF m THEN FALSE ELSE cur

\* catch (err) { if (isMounted.current) setError(err.message || ...); }
CatchError(m, msg, cur) == IF m THEN msg ELSE cur

\* processRecording up to its first await, called for session s by a closure
\* that captured isProcessing = closureIsProcessing, with the buffer
\* captured.
ProcessRecording(closureIsProcessing, captured, s) ==
  IF closureIsProcessing
  THEN UNCHANGED << isProcessing, error, runs, analyzeCalls >>
  ELSE IF BlobEmpty(captured)
  THEN /\ isProcessing' = FinallyIsProcessing(mounted, TRUE)
       /\ error' = CatchError(mounted, EmptyCaptureMsg, NULL)
       /\ UNCHANGED << runs, analyzeCalls >>
  ELSE /\ isProcessing' = TRUE
       /\ error' = NULL
       /\ runs' = Append(runs, [s |-> s, pc |-> "analyze", data |-> captured,
                                rppgData |-> NoResponse, scan |-> NoResult])
       /\ analyzeCalls' = CountAt(analyzeCalls, s)

\* The isProcessing value held by the processRecording closure that
\* recorder.onstop (created in an accepted startRecording) and
\* forceStopRecording (useCallback with no dependencies) call.
ClosureIsProcessing == FALSE

\* setTimeout(() => processRecording(chunksRef.current), 100) of recorder.onstop
OnstopTimeout(s) ==
  /\ tOnstop[s] > 0
  /\ Len(runs) < MaxRuns
  /\ tOnstop' = [tOnstop EXCEPT ![s] = @ - 1]
  /\ ProcessRecording(ClosureIsProcessing, chunks, s)
  /\ Op(IF BlobEmpty(chunks) THEN "handoff_empty" ELSE "handoff")
  /\ UNCHANGED << mounted, cameraVars, isRecording, recordingTime, result,
                  storageStatus, chunks, tForce, timerVars, recorderVars,
                  counterVars >>

\* setTimeout(() => processRecording(chunksRef.current), 200) of forceStopRecording
ForceStopTimeout(s) ==
  /\ tForce[s] > 0
  /\ Len(runs) < MaxRuns
  /\ tForce' = [tForce EXCEPT ![s] = @ - 1]
  /\ ProcessRecording(ClosureIsProcessing, chunks, s)
  /\ Op(IF BlobEmpty(chunks) THEN "handoff_empty" ELSE "handoff")
  /\ UNCHANGED << mounted, cameraVars, isRecording, recordingTime, result,
                  storageStatus, chunks, tOnstop, timerVars, recorderVars,
                  counterVars >>

\* a threshold that counts the boundary value as High
StressLevel_Inclusive(stress_index) ==
  IF stress_index >= HighStressAbove THEN "High" ELSE "Normal"

\* rppgData.stress_index > 50 ? 'High' : 'Normal'
StressLevel(stress_index) ==
  IF stress_index > HighStressAbove THEN "High" ELSE "Normal"

\* REPORT_STATUS: rppgData.heart_rate > 100 ? 'ELEVATED' : 'STABLE'
ReportStatus(heart_rate) ==
  IF heart_rate > ElevatedAbove THEN "ELEVATED" ELSE "STABLE"

ScanResult(heart_rate, stress_index) ==
  [heartRate |-> heart_rate, stressLevel |-> StressLevel(stress_index),
   status |-> ReportStatus(heart_rate)]

AnalyzeOutcomes == {"transport", "non2xx", "unparsable", "failed_reason",
                    "failed_noreason", "ok"}

\* every failure reported with the generic message
AnalyzeErrorMsg_Generic(outcome) == AnalysisFailedMsg

\* the message of the error thrown for a failed analyze step
AnalyzeErrorMsg(outcome) ==
  CASE outcome = "transport" -> TransportMsg
    [] outcome = "non2xx" -> ServerErrorMsg
    [] outcome = "unparsable" -> JsonParseMsg
    [] outcome = "failed_reason" -> ServiceReasonMsg
    [] OTHER -> AnalysisFailedMsg

\* what lastOp records for an analyze step that failed with outcome
AnalyzeFailedOp(outcome) ==
  CASE outcome = "transport" -> "analyze_transport"
    [] outcome = "non2xx" -> "analyze_non2xx"
    [] outcome = "unparsable" -> "analyze_unparsable"
    [] outcome = "failed_reason" -> "analyze_failed_reason"
    [] OTHER -> "analyze_failed_noreason"

AnalyzeFailedOps == {AnalyzeFailedOp(o) : o \in AnalyzeOutcomes \ {"ok"}}

\* Run i is aborted by a thrown error: catch, then finally.
Abort(i, msg) ==
  /\ error' = CatchError(mounted, msg, error)
  /\ isProcessing' = FinallyIsProcessing(mounted, isProcessing)
  /\ runs' = Remove(runs, i)
  /\ UNCHANGED << result, storageStatus >>

\* await fetch('/analyze') and response.json() of run i complete, a
\* successful response carrying a heart rate of heartRates and a stress
\* index of stressIndexes.
AnalyzeReturnsFrom(i, heartRates, stressIndexes) ==
  /\ i \in 1..Len(runs)
  /\ runs[i].pc = "analyze"
  /\ \E outcome \in AnalyzeOutcomes :
       IF outcome = "ok"
       THEN /\ \E hr \in heartRates, si \in stressIndexes :
                 runs' = [runs EXCEPT
                            ![i].pc = "persist",
                            ![i].rppgData = [heart_rate |-> hr,
                                             stress_index |-> si],
                            ![i].scan = ScanResult(hr, si)]
            /\ Op("analyze_ok")
            /\ UNCHANGED << isProcessing, displayVars >>
       ELSE /\ Abort(i, AnalyzeErrorMsg(outcome))
            /\ Op(AnalyzeFailedOp(outcome))
  /\ UNCHANGED << mounted, cameraVars, isRecording, recordingTime, chunks,
                  analyzeCalls, timeoutVars, timerVars, recorderVars,
                  counterVars >>

AnalyzeReturns(i) == AnalyzeReturnsFrom(i, HeartRates, StressIndexes)

PersistOutcomes == {"transport", "non2xx_nojson", "unparsable", "non2xx_json",
                    "failure_flag", "ok"}

\* await fetch(save) or saveResponse.json() throws
PersistThrows(outcome) == outcome \in {"transport", "non2xx_nojson", "unparsable"}

PersistErrorMsg(outcome) ==
  IF outcome = "transport" THEN TransportMsg ELSE JsonParseMsg

\* saveResult.success ? 'cloud' : 'local'
StorageOutcome(outcome) == IF outcome = "ok" THEN "cloud" ELSE "local"

\* await fetch('/api/vital-scan/save') and saveResponse.json() of run i
\* complete.
PersistReturns(i) ==
  /\ i \in 1..Len(runs)
  /\ runs[i].pc = "persist"
  /\ \E outcome \in PersistOutcomes :
       /\ IF PersistThrows(outcome)
          THEN Abort(i, PersistErrorMsg(outcome))
          ELSE /\ result' = IF mounted THEN runs[i].scan ELSE result
               /\ storageStatus' = IF mounted THEN StorageOutcome(outcome)
                                   ELSE storageStatus
               /\ error' = error
               /\ isProcessing' = FinallyIsProcessing(mounted, isProcessing)
               /\ runs' = Remove(runs, i)
       /\ Op(IF outcome = "ok" THEN "persist_ok" ELSE "persist_failed")
  /\ UNCHANGED << mounted, cameraVars, isRecording, recordingTime, chunks,
                  analyzeCalls, timeoutVars, timerVars, recorderVars,
                  counterVars >>

\* ---------------------------------------------------------------------
\* MediaRecorder events
\* ---------------------------------------------------------------------

\* recorder.ondataavailable: if (e.data.size > 0) chunksRef.current.push(e.data)
OnDataAvailable(ch, s, size) == IF size > 0 THEN Append(ch, s) ELSE ch

DataSizes == {0, 1}

\* A timeslice (1000 ms) of recorder s ends.
DataAvailable ==
  /\ rec = "recording"
  /\ "cur" \in intervals
  /\ clock["cur"] >= 1
  /\ clock["cur"] <= MaxChunks
  /\ Len(chunks) < MaxChunks
  /\ \E size \in DataSizes : chunks' = OnDataAvailable(chunks, "cur", size)
  /\ Op("data")
  /\ UNCHANGED << mounted, cameraVars, isRecording, recordingTime, displayVars,
                  processVars, timeoutVars, timerVars, recorderVars,
                  counterVars >>

\* The final data a recorder delivers when it becomes inactive.
FinalSizes == IF Len(chunks) < MaxChunks THEN DataSizes ELSE {0}

\* The task queued by recorder.stop(): dataavailable, then stop
\* (recorder.onstop schedules the 100 ms hand-off).
RecorderStopped ==
  /\ rec \in {"stopping", "errored"}
  /\ rec' = "done"
  /\ \E size \in FinalSizes : chunks' = OnDataAvailable(chunks, "cur", size)
  /\ tOnstop' = Bump(tOnstop, "cur")
  /\ Op("onstop")
  /\ UNCHANGED << mounted, cameraVars, isRecording, recordingTime, displayVars,
                  processVars, tForce, timerVars, mediaRecorderRef,
                  counterVars >>

\* The recorder ends by itself (all tracks of the stream ended): it becomes
\* inactive and fires dataavailable, then stop.
RecorderEnds ==
  /\ rec = "recording"
  /\ rec' = "done"
  /\ \E size \in FinalSizes : chunks' = OnDataAvailable(chunks, "cur", size)
  /\ tOnstop' = Bump(tOnstop, "cur")
  /\ Op("ended")
  /\ UNCHANGED << mounted, cameraVars, isRecording, recordingTime, displayVars,
                  processVars, tForce, timerVars, mediaRecorderRef,
                  counterVars >>

\* The recorder reports an error.  While recording: it becomes inactive and
\* fires error (recorder.onerror calls forceStopRecording), dataavailable and
\* stop in one task.  After recorder.stop(): error alone, the stop task is
\* still queued.
RecorderError ==
  /\ rec \in {"recording", "stopping"}
  /\ IF rec = "recording"
     THEN /\ ForceStopRecording([Now EXCEPT !.rec = "done"])
          /\ \E size \in FinalSizes :
               chunks' = OnDataAvailable(chunks, "cur", size)
          /\ tOnstop' = Bump(tOnstop, "cur")
     ELSE /\ ForceStopRecording([Now EXCEPT !.rec = "errored"])
          /\ UNCHANGED << chunks, tOnstop >>
  /\ Op("recorder_error")
  /\ UNCHANGED << mounted, cameraVars, displayVars, processVars >>

\* ---------------------------------------------------------------------
\* the health monitor (performCheck, the periodic health effect, the proxy
\* toggle) and localServices.checkHealth
\* ---------------------------------------------------------------------

\* res.ok
ResponseOk(status) == status >= 200 /\ status <= 299

\* e.toString()
ToString(e) == << e.name, ": ", e.message >>

\* a probe that reports every response as connected
Check_AlwaysConnected(proxy, o) ==
  [ok |-> TRUE, message |-> << "Connected" >>, latency |-> {o.latency},
   usingProxy |-> {proxy}, errorType |-> {}, rawError |-> {}]

\* check(url) of checkHealth, its fetch having ended with outcome o
Check(proxy, o) ==
  IF o.kind = "http"
  THEN [ok |-> ResponseOk(o.status),
        message |-> IF ResponseOk(o.status) THEN << "Connected" >>
                    ELSE << "Error ", o.status >>,
        latency |-> {o.latency},
        usingProxy |-> {proxy},
        errorType |-> {}, rawError |-> {}]
  ELSE [ok |-> FALSE, message |-> << "Network Error" >>, latency |-> {},
        usingProxy |-> {}, errorType |-> {"CORS"},
        rawError |-> {ToString(o.e)}]

\* localServices.checkHealth(useProxy): Promise.all of the two probes
CheckHealth(proxy, backend, rppg) ==
  [backend |-> Check(proxy, backend), rppg |-> Check(proxy, rppg)]

Services == {"backend", "rppg"}

\* The fetch of one probe of check c ends.
ProbeReturns(c, svc) ==
  /\ c \in checks
  /\ c[svc] = Pending
  /\ \E o \in ProbeOutcomes :
       checks' = (checks \ {c}) \cup {[c EXCEPT ![svc] = o]}
  /\ UNCHANGED << sessionVars, useProxy, serviceStatus, statusFrom,
                  healthInterval, dispatched >>

\* performCheck after its await: both probes of check c have ended;
\* if (isMounted.current) setServiceStatus(status).
PerformCheckResumes(c) ==
  /\ c \in checks
  /\ c.backend # Pending /\ c.rppg # Pending
  /\ checks' = checks \ {c}
  /\ IF mounted
     THEN /\ serviceStatus' = CheckHealth(c.useProxy, c.backend, c.rppg)
          /\ statusFrom' = [seq |-> c.seq, useProxy |-> c.useProxy,
                            interval |-> c.interval]
     ELSE UNCHANGED << serviceStatus, statusFrom >>
  /\ UNCHANGED << sessionVars, useProxy, healthInterval, dispatched >>

\* The callback of setInterval(performCheck, 10000).
HealthTick ==
  /\ healthInterval # 0
  /\ dispatched < MaxDispatched
  /\ dispatched' = dispatched + 1
  /\ checks' = checks \cup {NewCheck(dispatched + 1, useProxy, healthInterval)}
  /\ UNCHANGED << sessionVars, useProxy, serviceStatus, statusFrom,
                  healthInterval >>

\* The proxy button: setUseProxy(!useProxy); performCheck() (the
\* performCheck of the render that is on screen, with the useProxy of
\* that render).  The re-render gives performCheck a new identity, so the
\* periodic health effect is cleaned up (clearInterval) and run again:
\* performCheck() with the new useProxy and a new interval.
ToggleProxy ==
  /\ mounted
  /\ dispatched + 2 <= MaxDispatched
  /\ useProxy' = ~useProxy
  /\ dispatched' = dispatched + 2
  /\ healthInterval' = healthInterval + 1
  /\ checks' = checks \cup
                 {NewCheck(dispatched + 1, useProxy, healthInterval),
                  NewCheck(dispatched + 2, ~useProxy, healthInterval + 1)}
  /\ UNCHANGED << sessionVars, serviceStatus, statusFrom >>

\* The health monitor from mount to teardown.
HealthNext ==
  \/ HealthTick
  \/ ToggleProxy
  \/ \E c \in checks, svc \in Services : ProbeReturns(c, svc)
  \/ \E c \in checks : PerformCheckResumes(c)
  \/ Unmount

HealthSpec == Init /\ [][HealthNext]_vars

Next ==
  \/ StartCameraCompletes
  \/ RetryLive
  \/ ClearResult
  \/ Unmount
  \/ StartRecording
  \/ StopRecording
  \/ \E s \in Tags : Advance(s)
  \/ \E s \in Tags : TimerTick(s)
  \/ DataAvailable
  \/ RecorderStopped
  \/ RecorderEnds
  \/ RecorderError
  \/ \E s \in Tags : OnstopTimeout(s)
  \/ \E s \in Tags : ForceStopTimeout(s)
  \/ \E i \in 1..Len(runs) : AnalyzeReturns(i)
  \/ \E i \in 1..Len(runs) : PersistReturns(i)

Spec == Init /\ [][Next]_vars

StreamSpec == InitStreams /\ [][Next]_vars

\* The event loop runs every task that is due: timers fire, the recorder's
\* queued events are delivered and awaited calls return.
\* One processRecording run awaits its analyze response: the state after
\* a recording with the camera bound was stopped before its first
\* timeslice ended, the recorder delivered its final data and the hand-off
\* of recorder.onstop ran.
Analyzing ==
  /\ HealthMounted
  /\ mounted = TRUE
  /\ cameraPending = 0
  /\ srcObject = TRUE
  /\ heldStreams = 0
  /\ isRecording = FALSE
  /\ recordingTime = 0
  /\ isProcessing = TRUE
  /\ result = NoResult
  /\ error = NULL
  /\ storageStatus = NULL
  /\ mediaRecorderRef = NoRef
  /\ chunks = << "cur" >>
  /\ timerRef = NoRef
  /\ intervals = {}
  /\ clock = Zero
  /\ lag = Zero
  /\ rec = "done"
  /\ tOnstop = Zero
  /\ tForce = Zero
  /\ runs = << [s |-> "cur", pc |-> "analyze", data |-> << "cur" >>,
                rppgData |-> NoResponse, scan |-> NoResult] >>
  /\ analyzeCalls = [cur |-> 1, old |-> 0]
  /\ stopCalls = 1
  /\ timerCancels = 1
  /\ forceCalls = 1
  /\ lastOp = "handoff"
  /\ observe = "calls"

\* The processing run with the analyze response drawn from the values
\* around the thresholds.
MappingNext ==
  \/ \E i \in 1..Len(runs) :
       AnalyzeReturnsFrom(i, BoundaryHeartRates, BoundaryStressIndexes)
  \/ \E i \in 1..Len(runs) : PersistReturns(i)

MappingSpec == Analyzing /\ [][MappingNext]_vars

Fairness ==
  /\ \A s \in Tags : WF_vars(Advance(s)) /\ WF_vars(TimerTick(s))
  /\ \A s \in Tags : WF_vars(OnstopTimeout(s)) /\ WF_vars(ForceStopTimeout(s))
  /\ WF_vars(RecorderStopped)
  /\ WF_vars(\E i \in 1..Len(runs) : AnalyzeReturns(i))
  /\ WF_vars(\E i \in 1..Len(runs) : PersistReturns(i))

FairSpec == InitQuiet /\ [][Next]_vars /\ Fairness

TypeOK ==
  /\ mounted \in BOOLEAN
  /\ isRecording \in BOOLEAN
  /\ isProcessing \in BOOLEAN
  /\ Len(chunks) <= MaxChunks


\* ---------------------------------------------------------------------
\* Properties
\* ---------------------------------------------------------------------

\* C1: the buffered chunks of a session are forwarded to processing at most
\* once, so at most one analyze request is issued per session, whichever
\* path called forceStopRecording and however often.
C1_AtMostOneAnalyzePerSession == \A s \in Tags : analyzeCalls[s] <= 1

\* C2: once forceStopRecording has run in a session, the session's timer
\* has been cancelled exactly once and recorder.stop() has been called at
\* most once (exactly once when the recorder was recording), however many
\* times forceStopRecording has been invoked.
C2_ForceStopIdempotent ==
  forceCalls >= 1 =>
    /\ timerCancels = 1
    /\ stopCalls <= 1
    /\ rec \in {"stopping", "errored"} => stopCalls = 1
    /\ rec # "recording"
    /\ timerRef = NoRef /\ mediaRecorderRef = NoRef

\* forceStopRecording has been invoked more than once in one session that
\* had a running recorder and timer.
C2_Witness ==
  forceCalls >= 2 /\ stopCalls = 1 /\ timerCancels = 1 /\ rec = "errored"

\* C3: isRecording and isProcessing are never both true.
C3_NotRecordingAndProcessing == ~(isRecording /\ isProcessing)

\* C4: at most one processing run is in flight at any time, and a recording
\* is never started while a hand-off is pending or a run is in flight.
C4_OneCycleInFlight ==
  /\ Len(runs) <= 1
  /\ lastOp = "start" => Len(runs) = 0 /\ NoPendingTimeout

\* The fields of the session that a rejected start must leave alone.
SessionFields ==
  << isRecording, recordingTime, isProcessing, result, error, storageStatus,
     chunks, timerRef, intervals, clock, lag, mediaRecorderRef, rec, tOnstop,
     tForce, runs >>

\* C5: a startRecording call made while isRecording or isProcessing is true
\* changes no field of the session.
C5_RejectedStartChangesNothing ==
  [][(lastOp' \in {"start", "start_failed", "start_rejected"}
        /\ (isRecording \/ isProcessing))
     => UNCHANGED SessionFields]_vars

\* startRecording has been called while a run was being processed.
C5_Witness == lastOp = "start_rejected" /\ isProcessing /\ ~isRecording

\* C6: when the persistence call fails after a successful analyze call, the
\* session holds the result, no error, and storage outcome 'local'.
C6_PersistFailureKeepsResult ==
  (lastOp = "persist_failed" /\ mounted) =>
     /\ result # NoResult
     /\ error = NULL
     /\ storageStatus = "local"

\* A session that entered Recording has just come to its end
\* (forceStopRecording has run, the recorder is inactive and nothing is left
\* to hand off) and has captured no chunk.
ZeroByteSessionOver ==
  /\ mounted
  /\ forceCalls >= 1
  /\ ~isRecording
  /\ chunks = << >>
  /\ rec \in {"none", "done"}
  /\ tOnstop["cur"] = 0 /\ tForce["cur"] = 0
  /\ lastOp \in {"stop", "deadline", "recorder_error", "handoff_empty"}

\* C7: a session that captured zero bytes ends with the empty-capture
\* error in the session state and without an analyze request.
C7_EmptyCaptureSurfaced ==
  ZeroByteSessionOver => error = EmptyCaptureMsg /\ analyzeCalls["cur"] = 0

\* C8: isProcessing is never false while an analyze or persistence call is
\* still in flight (the persistence outcome precedes isProcessing = false).
C8_ProcessingUntilCallsReturn == Len(runs) > 0 => isProcessing

C10_ProcessingCompletes ==
  (isProcessing /\ mounted) ~>
     (~mounted \/ (~isProcessing /\ (result # NoResult \/ error # NULL)))

\* A run is awaiting its persistence call.
C10_Witness ==
  isProcessing /\ mounted /\ \E i \in 1..Len(runs) : runs[i].pc = "persist"

\* C15: once the component is torn down and no acquisition is pending any
\* more, every camera stream that was acquired has been released.
C15_StreamsReleasedAfterTeardown ==
  (~mounted /\ cameraPending = 0) => heldStreams = 0

\* C16: while the component is mounted at most one camera stream is held
\* (acquired and not released).
C16_AtMostOneStreamHeld == mounted => heldStreams <= 1

\* C11: when the deadline fires, the elapsed seconds the timer callback has
\* computed equal the recording duration of 30, however late the callback
\* runs.
C11_DeadlineAtExactDuration ==
  [][lastOp' = "deadline"
       => \A s \in intervals \ intervals' : clock[s] = RecordingDuration]_vars

\* C12: the deadline fires at most once per session and leaves the timer
\* cancelled; no callback of the session's timer runs after the deadline or
\* after a forceStopRecording; a forceStopRecording that finds the timer
\* cancelled changes nothing of the timer.
C12_TimerStopsAtDeadline ==
  [][/\ lastOp' \in {"tick", "deadline"} => (forceCalls = 0 /\ isRecording)
     /\ lastOp' = "deadline" => (intervals' = {} /\ timerRef' = NoRef)
     /\ (lastOp' \in {"stop", "recorder_error"} /\ forceCalls >= 1)
          => UNCHANGED << timerRef, intervals, clock, lag, recordingTime >>
    ]_vars

\* The deadline has fired for a session with a running recorder, and
\* forceStopRecording was then invoked again by recorder.onerror.
C12_Witness ==
  /\ lastOp = "recorder_error"
  /\ forceCalls = 2
  /\ timerCancels = 1
  /\ intervals = {}
  /\ recordingTime = 0
  /\ ~isRecording

\* The session state of the component.
SessionState ==
  << isRecording, recordingTime, isProcessing, result, error, storageStatus >>

\* C13: after the component is torn down no task writes a field of the
\* session state.
C13_NoWriteAfterTeardown == [][~mounted => UNCHANGED SessionState]_vars

\* C14: after teardown no timer of a session is scheduled, the recorder is
\* not recording, and no analyze call is initiated.
C14_NothingInUseAfterTeardown ==
  ~mounted => /\ intervals = {}
              /\ timerRef = NoRef
              /\ rec # "recording"
              /\ lastOp # "handoff"

\* C17: startRecording called while Idle with no camera stream bound
\* leaves isRecording false, starts no timer and leaves the elapsed time,
\* the result and the error as they are.
C17_StartWithoutStreamIsNoOp ==
  [][(lastOp' \in {"start", "start_failed"} /\ ~StartRejected /\ ~srcObject)
       => /\ isRecording' = FALSE
          /\ UNCHANGED << timerRef, intervals, recordingTime, result, error >>
    ]_vars

\* C18: while the camera acquisition has failed and no stream has been
\* acquired since, the session is not recording and the error is the
\* permission message.
C18_DeniedCameraNeverRecords ==
  (mounted /\ ~srcObject /\ cameraPending = 0)
     => (~isRecording /\ error = CameraDeniedMsg)

\* C20: when a processing run aborts (empty capture, or a failed analyze
\* call), the session holds an error message and no result.
C20_AbortLeavesErrorAndNoResult ==
  (mounted /\ lastOp \in AnalyzeFailedOps \cup {"handoff_empty"})
     => (error # NULL /\ result = NoResult)

\* C19: for a successful analyze response the result's stressLevel is High
\* exactly when the stress index is above 50 and the report status is
\* ELEVATED exactly when the heart rate is above 100; a stress index of 50
\* gives Normal and a heart rate of 100 gives STABLE.
C19_ThresholdsAreStrict ==
  \A i \in 1..Len(runs) :
     runs[i].pc = "persist" =>
       LET d == runs[i].rppgData
           r == runs[i].scan
       IN  /\ r.stressLevel = "High" <=> d.stress_index > 50
           /\ r.stressLevel \in {"High", "Normal"}
           /\ r.status = "ELEVATED" <=> d.heart_rate > 100
           /\ r.status \in {"ELEVATED", "STABLE"}
           /\ d.stress_index = 50 => r.stressLevel = "Normal"
           /\ d.heart_rate = 100 => r.status = "STABLE"

\* A successful analyze response has carried both boundary values.
C19_Witness ==
  \E i \in 1..Len(runs) :
     /\ runs[i].pc = "persist"
     /\ runs[i].rppgData = [heart_rate |-> 100, stress_index |-> 50]
     /\ runs[i].scan.stressLevel = "Normal"
     /\ runs[i].scan.status = "STABLE"

\* C21: the storage outcome is unset exactly when no result is held.
C21_StorageOutcomeFollowsResult ==
  (storageStatus = NULL) <=> (result = NoResult)

\* C22: the chunk buffer is non-empty only while a recording is active or
\* between forceStopRecording and the hand-off to processing; after the
\* hand-off it is empty.
C22_BufferEmptyAfterHandoff ==
  (~isRecording /\ NoPendingTimeout /\ rec \in {"none", "done"})
     => chunks = << >>

\* the runs that have reached the persistence call
Persisting(q) == {i \in 1..Len(q) : q[i].pc = "persist"}

\* C25: a failed analyze step surfaces the most specific message: the HTTP
\* status for a non-2xx response, the transport message for a transport
\* failure, the reason given by the service for a 2xx response without
\* success, or the generic message when no reason is given; and the run
\* makes no persistence call.
C25_AnalyzeFailureMessage ==
  [][(mounted /\ lastOp' \in AnalyzeFailedOps) =>
       /\ lastOp' = "analyze_non2xx" => error' = "Server error: 500"
       /\ lastOp' = "analyze_transport" => error' = "Failed to fetch"
       /\ lastOp' = "analyze_failed_reason" => error' = "No face detected"
       /\ lastOp' = "analyze_failed_noreason" => error' = "Analysis failed"
       /\ error' # NULL
       /\ Len(runs') = Len(runs) - 1
       /\ Cardinality(Persisting(runs')) = Cardinality(Persisting(runs))
    ]_vars

\* An analyze call has returned a non-2xx response.
C25_Witness ==
  mounted /\ lastOp = "analyze_non2xx" /\ error = "Server error: 500"

\* C26: an accepted startRecording that enters Recording leaves the chunk
\* buffer empty, the elapsed time 0, and the result and the error cleared.
C26_StartBeginsClean ==
  [][lastOp' = "start" =>
       /\ isRecording'
       /\ chunks' = << >>
       /\ recordingTime' = 0
       /\ result' = NoResult
       /\ error' = NULL
       /\ clock'["cur"] = 0
    ]_vars

\* A recording has been started after a session whose chunks were analyzed.
C26_Witness ==
  /\ lastOp = "start"
  /\ isRecording
  /\ chunks = << >>
  /\ analyzeCalls["old"] >= 1

\* C27: the buffer a hand-off passes to processRecording holds the chunks
\* of the session that scheduled the hand-off, and the hand-off of
\* forceStopRecording, scheduled for a non-empty buffer, passes a
\* non-empty one.
C27_HandoffPassesOwnChunks ==
  [][lastOp' \in {"handoff", "handoff_empty"} =>
       \A s \in Tags :
          /\ (tOnstop'[s] < tOnstop[s] \/ tForce'[s] < tForce[s])
               => \A j \in 1..Len(chunks) : chunks[j] = s
          /\ tForce'[s] < tForce[s] => chunks # << >>
    ]_vars

\* C28: at most one session timer is scheduled and the recorder is active
\* only while isRecording is true; the timer exists only while isRecording
\* is true; while isRecording is false the displayed elapsed time is 0.
C28_TimerAndRecorderOnlyWhileRecording ==
  /\ Cardinality(intervals) <= 1
  /\ intervals # {} => isRecording
  /\ timerRef # NoRef => isRecording
  /\ rec = "recording" => isRecording
  /\ mediaRecorderRef # NoRef => isRecording
  /\ ~isRecording => recordingTime = 0

\* The deadline has ended a session with a running recorder after its
\* timer had displayed an elapsed time.
C28_Witness ==
  /\ lastOp = "deadline"
  /\ ~isRecording
  /\ rec = "stopping"
  /\ stopCalls = 1
  /\ recordingTime = 0
  /\ intervals = {}

\* C29: result and error are never both set.
C29_ResultOrErrorNotBoth == ~(result # NoResult /\ error # NULL)

\* C23: a health check that was dispatched under an interval that has been
\* cancelled since (by teardown or by the re-scheduling after a proxy
\* toggle) does not update serviceStatus.
C23_CancelledScheduleNeverUpdates ==
  [][statusFrom' # statusFrom
       => (healthInterval # 0 /\ statusFrom'.interval = healthInterval)]_vars

\* What the claim says of the status st reported for a probe that ended
\* with outcome o.
StatusAgrees(st, o) ==
  /\ (o.kind = "http" /\ (o.status < 200 \/ o.status > 299)) =>
        /\ st.ok = FALSE
        /\ st.message = << "Error ", o.status >>
        /\ st.latency = {o.latency}
  /\ (o.kind = "http" /\ o.status >= 200 /\ o.status <= 299) => st.ok = TRUE
  /\ o.kind = "throws" =>
        /\ st.ok = FALSE
        /\ st.errorType = {"CORS"}
        /\ st.rawError = {<< o.e.name, ": ", o.e.message >>}

\* C24: checkHealth returns a status for both services, each determined by
\* its own probe: a non-2xx response gives ok = false, a message derived
\* from the status code and the measured latency; a thrown exception gives
\* ok = false, errorType CORS and the text of the exception.
C24_CheckHealthReportsEachProbe ==
  [][statusFrom' # statusFrom =>
       \E c \in checks \ checks' :
          /\ c.seq = statusFrom'.seq
          /\ StatusAgrees(serviceStatus'.backend, c.backend)
          /\ StatusAgrees(serviceStatus'.rppg, c.rppg)
    ]_vars

\* A check has reported a non-2xx response of one service and a transport
\* exception of the other.
C24_Witness ==
  /\ statusFrom.seq >= 1
  /\ serviceStatus.backend.message = << "Error ", 503 >>
  /\ serviceStatus.backend.latency # {}
  /\ serviceStatus.rppg.errorType = {"CORS"}
  /\ serviceStatus.rppg.rawError # {}

\* C30: serviceStatus is only ever replaced by the result of a check that
\* was dispatched later than the one it holds, and that was measured with
\* the current proxy mode.
C30_NewerCheckNeverOverwritten ==
  [][statusFrom' # statusFrom
       => (statusFrom'.seq > statusFrom.seq
           /\ statusFrom'.useProxy = useProxy)]_vars

====
